---- MODULE Spec2Model ----
(***************************************************************************)
(* Model of filesmith / ooxlm.                                             *)
(*                                                                         *)
(* Part 1: ooxlm.common.zip_ops -- the archive reader (list_members,       *)
(* load_member, load_members, load_all) and the archive rewriter           *)
(* (rewrite_zip, copy_zip) acting on a small file system.                  *)
(*                                                                         *)
(* A file is a record [exists, entries]; entries is the archive's ordered  *)
(* sequence of members [name, data, meta], meta being the ZipInfo fields   *)
(* the rewriter carries over: [method, ts, perm].                          *)
(***************************************************************************)
EXTENDS Integers, Sequences, FiniteSets, TLC

\* ------------------------------------------------------------------ bounds
MaxEntries == 2
MaxRepl == 2
MaxReq == 2

\* ------------------------------------------------------------- value sets
Paths == {"p1", "p2"}
Names == {"a", "b", "c"}
Data == {"x", "y"}

\* ZipFile(dst, "w", compression=ZIP_DEFLATED): the method writestr(name, ..)
\* gives a member that has no ZipInfo of its own.
ZIP_DEFLATED == "deflated"
ZIP_STORED == "stored"

\* Variant: the output opened without compression=ZIP_DEFLATED.
DefaultMeta_Stored(now) == [method |-> ZIP_STORED, ts |-> now, perm |-> "0600"]

\* zipfile's ZipInfo(name, date_time=localtime()) of writestr(name, data):
\* permission bits 0600, the archive's compression, the time of the call.
DefaultMeta(now) == [method |-> ZIP_DEFLATED, ts |-> now, perm |-> "0600"]

\* The clock readings a call can see, and the metadata source members carry.
\* One source metadata differs from every default one, the other is what a
\* default member written at time "t1" carries.
Times == {"t1"}
SourceMetas == {[method |-> ZIP_STORED, ts |-> "t0", perm |-> "0644"],
                [method |-> ZIP_DEFLATED, ts |-> "t1", perm |-> "0600"]}

\* The members an initial archive is made of: content and metadata vary
\* independently but for one combination, which keeps the archives few.
Entries == {e \in [name : Names, data : Data, meta : SourceMetas] :
                e.data = "y" \/ e.meta.method = ZIP_STORED}

NoFile == [exists |-> FALSE, entries |-> <<>>]
File(es) == [exists |-> TRUE, entries |-> es]

\* --------------------------------------------------------------- helpers
Range(s) == {s[i] : i \in 1..Len(s)}
SeqsUpTo(S, n) == UNION {[1..k -> S] : k \in 0..n}
UniqueNames(es) == \A i, j \in 1..Len(es) : es[i].name = es[j].name => i = j
NameSeq(es) == [i \in 1..Len(es) |-> es[i].name]
NameSet(es) == {es[i].name : i \in 1..Len(es)}

\* The subsequence of s whose elements lie in S.
RECURSIVE FilterSeq(_, _)
FilterSeq(s, S) ==
    IF s = <<>> THEN <<>>
    ELSE IF s[1] \in S THEN <<s[1]>> \o FilterSeq(Tail(s), S)
    ELSE FilterSeq(Tail(s), S)

\* Archives of the initial file system: members have unique names.
Archives == {es \in SeqsUpTo(Entries, MaxEntries) : UniqueNames(es)}

\* A replacements mapping (a dict): unique keys, iterated in insertion order.
ReplItems == [name : Names, data : Data]
ReplMappings == {r \in SeqsUpTo(ReplItems, MaxRepl) : UniqueNames(r)}
ReplHas(repl, name) == \E j \in 1..Len(repl) : repl[j].name = name
ReplGet(repl, name) == repl[CHOOSE j \in 1..Len(repl) : repl[j].name = name].data

\* ------------------------------------------------- zipfile, as zip_ops uses it
\* ZipFile(path): opening for reading needs the file to exist.
CanOpen(fsys, path) == fsys[path].exists

\* zin.infolist(): the directory read when the archive was opened.
InfoList(fsys, path) == fsys[path].entries

\* zin.read(name) for the i-th member of the directory read at opening time:
\* the bytes are fetched from the file as it is now, and are there only while
\* the file still holds that member at its place.
CanRead(file, i, info) ==
    /\ file.exists
    /\ i <= Len(file.entries)
    /\ file.entries[i] = info

\* Variant: writestr(info, data, compress_type=ZIP_DEFLATED).
WriteStrInfo_Recompress(out, info, data) ==
    Append(out, [name |-> info.name, data |-> data,
                 meta |-> [info.meta EXCEPT !.method = ZIP_DEFLATED]])

\* zout.writestr(info, data): the member keeps the ZipInfo's name and metadata.
WriteStrInfo(out, info, data) ==
    Append(out, [name |-> info.name, data |-> data, meta |-> info.meta])

\* Variant: the new member put in front of the members written so far.
WriteStrName_Front(out, name, data, now) ==
    <<[name |-> name, data |-> data,
       meta |-> [method |-> ZIP_DEFLATED, ts |-> now, perm |-> "0600"]]>> \o out

\* zout.writestr(name, data): a new member with default metadata.
WriteStrName(out, name, data, now) ==
    Append(out, [name |-> name, data |-> data, meta |-> DefaultMeta(now)])

\* Variant: drop ignored.
ToDrop_Ignored(drop) == {}

\* The drop argument: None (the default) or a collection of names.
None == [given |-> FALSE, names |-> {}]
DropArgs == {None} \cup {[given |-> TRUE, names |-> S] : S \in SUBSET Names}

\* to_drop = set(drop or [])
ToDrop(drop) == IF drop.given THEN drop.names ELSE {}

\* ---------------------------------------------------------- archive reader
\* list_members(zip_path)
list_members(fsys, zip_path) ==
    IF ~CanOpen(fsys, zip_path)
    THEN [status |-> "FileNotFoundError", value |-> <<>>]
    ELSE [status |-> "returned", value |-> NameSeq(fsys[zip_path].entries)]

\* zf.read(member) by name
HasMember(es, member) == \E i \in 1..Len(es) : es[i].name = member
MemberData(es, member) == es[CHOOSE i \in 1..Len(es) : es[i].name = member].data

\* load_member(zip_path, member)
load_member(fsys, zip_path, member) ==
    IF ~CanOpen(fsys, zip_path)
    THEN [status |-> "FileNotFoundError", value |-> ""]
    ELSE IF ~HasMember(fsys[zip_path].entries, member)
    THEN [status |-> "KeyError", value |-> ""]
    ELSE [status |-> "returned", value |-> MemberData(fsys[zip_path].entries, member)]

\* Variant: a missing name is passed over and the rest is returned.
RECURSIVE LoadMembersLoop_SkipMissing(_, _, _, _)
LoadMembersLoop_SkipMissing(es, members, k, result) ==
    IF k > Len(members)
    THEN [status |-> "returned", missing |-> "", value |-> result]
    ELSE IF ~HasMember(es, members[k])
    THEN LoadMembersLoop_SkipMissing(es, members, k + 1, result)
    ELSE LoadMembersLoop_SkipMissing(es, members, k + 1,
            [n \in (DOMAIN result) \cup {members[k]} |->
                IF n = members[k] THEN MemberData(es, n) ELSE result[n]])

\* The loop of load_members from its k-th requested name on; result is the
\* local dict built so far, a function from names to bytes.  A missing name
\* raises out of the loop and the local dict is lost with the frame.
RECURSIVE LoadMembersLoop(_, _, _, _)
LoadMembersLoop(es, members, k, result) ==
    IF k > Len(members)
    THEN [status |-> "returned", missing |-> "", value |-> result]
    ELSE IF ~HasMember(es, members[k])
    THEN [status |-> "KeyError", missing |-> members[k], value |-> <<>>]
    ELSE LoadMembersLoop(es, members, k + 1,
            [n \in (DOMAIN result) \cup {members[k]} |->
                IF n = members[k] THEN MemberData(es, n) ELSE result[n]])

\* load_members(zip_path, members)
load_members(fsys, zip_path, members) ==
    IF ~CanOpen(fsys, zip_path)
    THEN [status |-> "FileNotFoundError", missing |-> "", value |-> <<>>]
    ELSE LoadMembersLoop(fsys[zip_path].entries, members, 1, <<>>)

\* load_all(zip_path)
load_all(fsys, zip_path) ==
    IF ~CanOpen(fsys, zip_path)
    THEN [status |-> "FileNotFoundError", value |-> <<>>]
    ELSE [status |-> "returned",
          value |-> [n \in NameSet(fsys[zip_path].entries) |->
                        MemberData(fsys[zip_path].entries, n)]]

\* -------------------------------------------------------- archive rewriter
\* First loop of rewrite_zip, from the i-th member of zin.infolist() on.
\* cur is the file system while both archives are open; cur[dst].entries is
\* what zout holds so far.  An exception leaves the `with` block, which
\* closes zout over the members written so far.
RECURSIVE RewriteCopyLoop(_, _, _, _, _, _, _, _)
RewriteCopyLoop(cur, src, dst, infos, replacements, to_drop, i, handled) ==
    IF i > Len(infos)
    THEN [fs |-> cur, handled |-> handled, status |-> "ok"]
    ELSE LET info == infos[i]
             name == info.name
         IN IF name \in to_drop
            THEN RewriteCopyLoop(cur, src, dst, infos, replacements, to_drop,
                                 i + 1, handled)
            ELSE IF ReplHas(replacements, name)
            THEN RewriteCopyLoop(
                    [cur EXCEPT ![dst] = File(WriteStrInfo(cur[dst].entries, info,
                                                  ReplGet(replacements, name)))],
                    src, dst, infos, replacements, to_drop, i + 1,
                    handled \cup {name})
            ELSE IF ~CanRead(cur[src], i, info)
            THEN [fs |-> cur, handled |-> handled, status |-> "BadZipFile"]
            ELSE RewriteCopyLoop(
                    [cur EXCEPT ![dst] = File(WriteStrInfo(cur[dst].entries, info,
                                                  cur[src].entries[i].data))],
                    src, dst, infos, replacements, to_drop, i + 1, handled)

\* Variant: the second loop without its test.
SkipHandled_Never(name, handled) == FALSE

\* The test of the second loop: a replacement already written is skipped.
SkipHandled(name, handled) == name \in handled

\* Second loop of rewrite_zip, from the j-th item of replacements.items() on.
RECURSIVE RewriteAddLoop(_, _, _, _, _)
RewriteAddLoop(out, replacements, handled, j, now) ==
    IF j > Len(replacements)
    THEN out
    ELSE IF SkipHandled(replacements[j].name, handled)
    THEN RewriteAddLoop(out, replacements, handled, j + 1, now)
    ELSE RewriteAddLoop(
            WriteStrName(out, replacements[j].name, replacements[j].data, now),
            replacements, handled, j + 1, now)

\* rewrite_zip(zip_path, output_path, replacements=..., drop=...), called
\* when the clock reads now.  ZipFile(src) is opened before ZipFile(dst, "w")
\* creates or truncates the output.
rewrite_zip(fsys, zip_path, output_path, replacements, drop, now) ==
    IF ~CanOpen(fsys, zip_path)
    THEN [fs |-> fsys, status |-> "FileNotFoundError"]
    ELSE LET opened == [fsys EXCEPT ![output_path] = File(<<>>)]
             copied == RewriteCopyLoop(opened, zip_path, output_path,
                                       InfoList(fsys, zip_path), replacements,
                                       ToDrop(drop), 1, {})
         IN IF copied.status # "ok"
            THEN [fs |-> copied.fs, status |-> copied.status]
            ELSE [fs |-> [copied.fs EXCEPT ![output_path] =
                            File(RewriteAddLoop(copied.fs[output_path].entries,
                                                replacements, copied.handled,
                                                1, now))],
                  status |-> "returned"]

\* Variant: copy_zip writing every member deflated.
RECURSIVE CopyLoop_Recompress(_, _, _, _, _)
CopyLoop_Recompress(cur, src, dst, infos, i) ==
    IF i > Len(infos)
    THEN [fs |-> cur, status |-> "returned"]
    ELSE IF ~CanRead(cur[src], i, infos[i])
    THEN [fs |-> cur, status |-> "BadZipFile"]
    ELSE CopyLoop_Recompress(
            [cur EXCEPT ![dst] =
                File(Append(cur[dst].entries,
                            [name |-> infos[i].name,
                             data |-> cur[src].entries[i].data,
                             meta |-> [infos[i].meta EXCEPT
                                          !.method = ZIP_DEFLATED]]))],
            src, dst, infos, i + 1)

\* The loop of copy_zip from the i-th member of zin.infolist() on.
RECURSIVE CopyLoop(_, _, _, _, _)
CopyLoop(cur, src, dst, infos, i) ==
    IF i > Len(infos)
    THEN [fs |-> cur, status |-> "returned"]
    ELSE IF ~CanRead(cur[src], i, infos[i])
    THEN [fs |-> cur, status |-> "BadZipFile"]
    ELSE CopyLoop(
            [cur EXCEPT ![dst] = File(WriteStrInfo(cur[dst].entries, infos[i],
                                          cur[src].entries[i].data))],
            src, dst, infos, i + 1)

\* Variant: copy_zip reading the bytes of the first member for every member.
RECURSIVE CopyLoop_FirstBytes(_, _, _, _, _)
CopyLoop_FirstBytes(cur, src, dst, infos, i) ==
    IF i > Len(infos)
    THEN [fs |-> cur, status |-> "returned"]
    ELSE IF ~CanRead(cur[src], i, infos[i])
    THEN [fs |-> cur, status |-> "BadZipFile"]
    ELSE CopyLoop_FirstBytes(
            [cur EXCEPT ![dst] = File(WriteStrInfo(cur[dst].entries, infos[i],
                                          cur[src].entries[1].data))],
            src, dst, infos, i + 1)

copy_zip_FirstBytes(fsys, src, dst) ==
    IF ~fsys[src].exists
    THEN [fs |-> fsys, status |-> "FileNotFoundError"]
    ELSE CopyLoop_FirstBytes([fsys EXCEPT ![dst] = File(<<>>)], src, dst,
                             fsys[src].entries, 1)

\* copy_zip(src, dst)
copy_zip(fsys, src, dst) ==
    IF ~CanOpen(fsys, src)
    THEN [fs |-> fsys, status |-> "FileNotFoundError"]
    ELSE CopyLoop([fsys EXCEPT ![dst] = File(<<>>)], src, dst,
                  InfoList(fsys, src), 1)

\* =========================================================================
\* Part 2: the document editors (ooxlm.docx.SimpleDocxEditor and
\* ooxlm.pptx.SimplePptxEditor).
\*
\* A text is a sequence of characters ("" and None are both <<>>: the editors
\* only ever test `if node.text`).  An element is [tag, text, kids], a tag is
\* [ns, local] for "{ns}local" (ns = "" for an unqualified tag).  The bytes of
\* a member are [kind, root]: kind "xml" is a document whose element texts
\* are sequences of the tokens written in the file (raw characters and
\* character references), any other kind is bytes ElementTree rejects.
\* =========================================================================

\* ----------------------------------------------------------------- bounds
MaxText == 2
MaxEdits == 2

\* ------------------------------------------------------------------ texts
\* The line-end characters of element texts and of the arguments of replace.
CR == "\r"
LF == "\n"

Texts(chars, n) == UNION {[1..k -> chars] : k \in 0..n}

\* s[i..] starts with p
MatchesAt(s, p, i) ==
    /\ i + Len(p) - 1 <= Len(s)
    /\ \A k \in 1..Len(p) : s[i + k - 1] = p[k]

\* `old in text`
Contains(text, old) == \E i \in 1..(Len(text) + 1) : MatchesAt(text, old, i)

\* "".join of the pieces with sep between them
RECURSIVE Join(_, _)
Join(sep, texts) ==
    IF texts = <<>> THEN <<>>
    ELSE IF Len(texts) = 1 THEN texts[1]
    ELSE texts[1] \o sep \o Join(sep, Tail(texts))

\* Variant: only the first occurrence replaced (str.replace(old, new, 1)).
StrReplaceFrom_Once(text, old, new, i) ==
    IF \E k \in i..Len(text) : MatchesAt(text, old, k)
    THEN LET k == CHOOSE k \in i..Len(text) :
                    /\ MatchesAt(text, old, k)
                    /\ \A h \in i..(k - 1) : ~MatchesAt(text, old, h)
         IN SubSeq(text, i, k - 1) \o new
                \o SubSeq(text, k + Len(old), Len(text))
    ELSE SubSeq(text, i, Len(text))

\* str.replace for a non-empty old, from position i on: occurrences are
\* taken from the left and do not overlap.
RECURSIVE StrReplaceFrom(_, _, _, _)
StrReplaceFrom(text, old, new, i) ==
    IF i > Len(text) THEN <<>>
    ELSE IF MatchesAt(text, old, i)
    THEN new \o StrReplaceFrom(text, old, new, i + Len(old))
    ELSE <<text[i]>> \o StrReplaceFrom(text, old, new, i + 1)

\* str.replace with an empty old: new before every character and at the end.
RECURSIVE Interleave(_, _)
Interleave(text, new) ==
    IF text = <<>> THEN new
    ELSE new \o <<text[1]>> \o Interleave(Tail(text), new)

\* text.replace(old, new)
StrReplace(text, old, new) ==
    IF old = <<>> THEN Interleave(text, new)
    ELSE StrReplaceFrom(text, old, new, 1)

\* --------------------------------------------------------------- elements
Tag(ns, local) == [ns |-> ns, local |-> local]
Elem(tag, text, kids) == [tag |-> tag, text |-> text, kids |-> kids]
W_T == Tag("w", "t")
A_T == Tag("a", "t")

\* Variant: the tag matched against the full qualified name of w:t.
IsTextTag_Exact(tag) == tag = W_T

\* node.tag.endswith("}t")
IsTextTag(tag) == tag.ns # "" /\ tag.local = "t"

\* root.iter(): the element, then its descendants, in document order.
RECURSIVE Iter(_)
RECURSIVE IterAll(_)
Iter(node) == <<node>> \o IterAll(node.kids)
IterAll(nodes) ==
    IF nodes = <<>> THEN <<>>
    ELSE Iter(nodes[1]) \o IterAll(Tail(nodes))

\* _iter_text_nodes of one tree: the elements whose tag ends with "}t".
RECURSIVE KeepTextNodes(_)
KeepTextNodes(nodes) ==
    IF nodes = <<>> THEN <<>>
    ELSE IF IsTextTag(nodes[1].tag)
    THEN <<nodes[1]>> \o KeepTextNodes(Tail(nodes))
    ELSE KeepTextNodes(Tail(nodes))

TextNodes(root) == KeepTextNodes(Iter(root))

\* ------------------------------------------------- ElementTree conversions
\* What a text of the file decodes to (ET.fromstring): a character
\* reference gives its character, and a line end written as a raw CR or
\* CR LF reads as one LF.
RECURSIVE DecodeText(_)
DecodeText(toks) ==
    IF toks = <<>> THEN <<>>
    ELSE IF toks[1] = CR
    THEN IF Len(toks) >= 2 /\ toks[2] = LF
         THEN <<LF>> \o DecodeText(Tail(Tail(toks)))
         ELSE <<LF>> \o DecodeText(Tail(toks))
    ELSE IF toks[1] = "&#13;" THEN <<CR>> \o DecodeText(Tail(toks))
    ELSE IF toks[1] = "&amp;" THEN <<"&">> \o DecodeText(Tail(toks))
    ELSE <<toks[1]>> \o DecodeText(Tail(toks))

\* What ET.tostring writes for a text: "&" is escaped, every other character
\* of the model is written as it is, a CR included.
RECURSIVE EncodeText(_)
EncodeText(text) ==
    IF text = <<>> THEN <<>>
    ELSE IF text[1] = "&" THEN <<"&amp;">> \o EncodeText(Tail(text))
    ELSE <<text[1]>> \o EncodeText(Tail(text))

RECURSIVE DecodeTree(_)
RECURSIVE DecodeKids(_)
DecodeTree(node) == Elem(node.tag, DecodeText(node.text), DecodeKids(node.kids))
DecodeKids(nodes) ==
    IF nodes = <<>> THEN <<>>
    ELSE <<DecodeTree(nodes[1])>> \o DecodeKids(Tail(nodes))

RECURSIVE EncodeTree(_)
RECURSIVE EncodeKids(_)
EncodeTree(node) == Elem(node.tag, EncodeText(node.text), EncodeKids(node.kids))
EncodeKids(nodes) ==
    IF nodes = <<>> THEN <<>>
    ELSE <<EncodeTree(nodes[1])>> \o EncodeKids(Tail(nodes))

NoTree == Elem(Tag("", ""), <<>>, <<>>)
XmlBytes(root) == [kind |-> "xml", root |-> root]
\* Bytes that are no well-formed document, and a document whose declaration
\* names an encoding Python does not know.
Malformed == [kind |-> "malformed", root |-> NoTree]
BadEncoding == [kind |-> "badenc", root |-> NoTree]

\* ET.fromstring(xml_bytes): the tree, ParseError, or the LookupError the
\* parser raises for an unknown encoding.
fromstring(bytes) ==
    IF bytes.kind = "xml"
    THEN [status |-> "ok", tree |-> DecodeTree(bytes.root)]
    ELSE IF bytes.kind = "badenc"
    THEN [status |-> "LookupError", tree |-> NoTree]
    ELSE [status |-> "ParseError", tree |-> NoTree]

\* ET.tostring(root, encoding="utf-8", xml_declaration=True)
tostring(root) == XmlBytes(EncodeTree(root))

\* ------------------------------------------------------------ member names
\* A member name of a package is the sequence of the pieces it is written
\* with; the pieces are chosen so that no piece is the start of another.
DOCUMENT_XML == <<"word/document.xml">>
SLIDES_PREFIX == <<"ppt/slides/">>
SLIDE_BASENAME == <<"slide">>
SLIDE_EXT == <<".xml">>
Digits == {"0", "1", "2"}

\* name.startswith(prefix), name.endswith(suffix), name[n:]
StartsWith(name, prefix) ==
    Len(name) >= Len(prefix) /\ SubSeq(name, 1, Len(prefix)) = prefix
EndsWith(name, suffix) ==
    /\ Len(name) >= Len(suffix)
    /\ SubSeq(name, Len(name) - Len(suffix) + 1, Len(name)) = suffix
DropFirst(name, n) == SubSeq(name, n + 1, Len(name))

\* The code point of the first character of each piece: the order of str.
PieceRank == [t \in {".xml", ".rels", "0", "1", "2", "A", "_rels/", "s/", "x",
                     "slide", "ppt/slides/", "word/document.xml",
                     "[Content_Types].xml"} |->
    CASE t \in {".xml", ".rels"} -> 46
      [] t = "0" -> 48
      [] t = "1" -> 49
      [] t = "2" -> 50
      [] t = "A" -> 65
      [] t = "[Content_Types].xml" -> 91
      [] t = "_rels/" -> 95
      [] t = "ppt/slides/" -> 112
      [] t \in {"s/", "slide"} -> 115
      [] t = "word/document.xml" -> 119
      [] t = "x" -> 120]

\* a < b for two names, as Python compares str
NameLess(a, b) ==
    \E k \in 1..(Len(a) + 1) :
        /\ k <= Len(b)
        /\ \A h \in 1..(k - 1) : a[h] = b[h]
        /\ (k = Len(a) + 1 \/ PieceRank[a[k]] < PieceRank[b[k]])

\* Variant: the names kept in the order the archive lists them.
Sorted_ArchiveOrder(names) == names

\* sorted(names) for names that are all different
RECURSIVE Sorted(_)
Sorted(names) ==
    IF names = <<>> THEN <<>>
    ELSE LET least == CHOOSE k \in 1..Len(names) :
                        \A h \in 1..Len(names) :
                            h # k => NameLess(names[k], names[h])
         IN <<names[least]>>
              \o Sorted([h \in 1..(Len(names) - 1) |->
                            IF h < least THEN names[h] ELSE names[h + 1]])

\* ------------------------------------------------------ what both editors do
\* An editor object: kind "docx" keeps _xml_root in root, kind "pptx" keeps
\* the dict _slides in slides, a sequence of [name, root] in insertion order.
NoEditor == [kind |-> "none", path |-> "", root |-> NoTree, slides |-> <<>>]

\* The texts get_text appends: `if node.text: texts.append(node.text)`.
RECURSIVE CollectTexts(_)
CollectTexts(nodes) ==
    IF nodes = <<>> THEN <<>>
    ELSE IF nodes[1].text # <<>>
    THEN <<nodes[1].text>> \o CollectTexts(Tail(nodes))
    ELSE CollectTexts(Tail(nodes))

\* Variant: a node counts once it holds old, changed or not.
NodeChanged_Contains(text, old, new) == Contains(text, old)

\* Variant: every node with text is counted.
NodeChanged_Always(text, old, new) == TRUE

\* The test of the replace loop for a node with text:
\* new_text = node.text.replace(old, new); new_text != node.text
NodeChanged(text, old, new) == StrReplace(text, old, new) # text

\* The replace loop over one tree: [node |-> the tree afterwards,
\* count |-> the nodes whose text was assigned].
RECURSIVE ReplaceNode(_, _, _)
RECURSIVE ReplaceKids(_, _, _)
ReplaceNode(node, old, new) ==
    LET hit == /\ IsTextTag(node.tag)
               /\ node.text # <<>>
               /\ NodeChanged(node.text, old, new)
        kids == ReplaceKids(node.kids, old, new)
    IN [node |-> Elem(node.tag,
                      IF hit THEN StrReplace(node.text, old, new)
                      ELSE node.text,
                      kids.nodes),
        count |-> (IF hit THEN 1 ELSE 0) + kids.count]
ReplaceKids(nodes, old, new) ==
    IF nodes = <<>> THEN [nodes |-> <<>>, count |-> 0]
    ELSE LET first == ReplaceNode(nodes[1], old, new)
             rest == ReplaceKids(Tail(nodes), old, new)
         IN [nodes |-> <<first.node>> \o rest.nodes,
             count |-> first.count + rest.count]

\* Variant: replace without its `if not old: return 0`.
SkipEmptyOld_Never(old) == FALSE

\* `if not old`
SkipEmptyOld(old) == old = <<>>

\* ------------------------------------------------------- SimpleDocxEditor
\* _load_document_xml, called by __init__
load_document_xml(fsys, path) ==
    IF ~fsys[path].exists
    THEN [status |-> "FileNotFoundError", root |-> NoTree]
    ELSE LET m == load_member(fsys, path, DOCUMENT_XML)
         IN IF m.status = "KeyError"
            THEN [status |-> "RuntimeError", root |-> NoTree]
            ELSE LET t == fromstring(m.value)
                 IN IF t.status = "ParseError"
                    THEN [status |-> "RuntimeError", root |-> NoTree]
                    ELSE [status |-> t.status, root |-> t.tree]

\* SimpleDocxEditor(path): the object exists only when __init__ returns.
docx_init(fsys, path) ==
    LET r == load_document_xml(fsys, path)
    IN IF r.status = "ok"
       THEN [status |-> "ok",
             ed |-> [kind |-> "docx", path |-> path, root |-> r.root,
                     slides |-> <<>>]]
       ELSE [status |-> r.status, ed |-> NoEditor]

\* SimpleDocxEditor._iter_text_nodes
docx_iter_text_nodes(e) == TextNodes(e.root)

\* SimpleDocxEditor.get_text(separator)
docx_get_text(e, separator) ==
    Join(separator, CollectTexts(docx_iter_text_nodes(e)))

\* SimpleDocxEditor.replace(old, new)
docx_replace(e, old, new) ==
    IF SkipEmptyOld(old) THEN [ed |-> e, count |-> 0]
    ELSE LET r == ReplaceNode(e.root, old, new)
         IN [ed |-> [e EXCEPT !.root = r.node], count |-> r.count]

\* The replacements SimpleDocxEditor.save hands to rewrite_zip.
docx_replacements(e) == <<[name |-> DOCUMENT_XML, data |-> tostring(e.root)]>>

\* SimpleDocxEditor.save(output_path)
docx_save(fsys, e, output_path, now) ==
    rewrite_zip(fsys, e.path, output_path, docx_replacements(e), None, now)

\* ------------------------------------------------------- SimplePptxEditor
\* Variant: a slide name is the prefix, the base name, digits, the extension.
IsSlideName_Numeric(name) ==
    /\ StartsWith(name, SLIDES_PREFIX \o SLIDE_BASENAME)
    /\ EndsWith(name, SLIDE_EXT)
    /\ Len(name) > Len(SLIDES_PREFIX) + Len(SLIDE_BASENAME) + Len(SLIDE_EXT)
    /\ \A k \in (Len(SLIDES_PREFIX) + Len(SLIDE_BASENAME) + 1)
                    ..(Len(name) - Len(SLIDE_EXT)) : name[k] \in Digits

\* The filter of _load_slides.
IsSlideName(name) ==
    /\ StartsWith(name, SLIDES_PREFIX)
    /\ StartsWith(DropFirst(name, Len(SLIDES_PREFIX)), SLIDE_BASENAME)
    /\ EndsWith(name, SLIDE_EXT)

RECURSIVE KeepSlideNames(_)
KeepSlideNames(members) ==
    IF members = <<>> THEN <<>>
    ELSE IF IsSlideName(members[1])
    THEN <<members[1]>> \o KeepSlideNames(Tail(members))
    ELSE KeepSlideNames(Tail(members))

\* slide_names = sorted(name for name in members if ...)
SlideNames(members) == Sorted(KeepSlideNames(members))

\* The loading loop of _load_slides from the k-th slide name on; slides is
\* the local dict.
RECURSIVE LoadSlidesLoop(_, _, _, _, _)
LoadSlidesLoop(fsys, path, slide_names, k, slides) ==
    IF k > Len(slide_names)
    THEN [status |-> "ok", slides |-> slides]
    ELSE LET t == fromstring(load_member(fsys, path, slide_names[k]).value)
         IN IF t.status = "ParseError"
            THEN [status |-> "RuntimeError", slides |-> <<>>]
            ELSE IF t.status # "ok"
            THEN [status |-> t.status, slides |-> <<>>]
            ELSE LoadSlidesLoop(fsys, path, slide_names, k + 1,
                    Append(slides, [name |-> slide_names[k], root |-> t.tree]))

\* _load_slides, called by __init__
load_slides(fsys, path) ==
    IF ~fsys[path].exists
    THEN [status |-> "FileNotFoundError", slides |-> <<>>]
    ELSE LET slide_names == SlideNames(list_members(fsys, path).value)
         IN IF slide_names = <<>>
            THEN [status |-> "RuntimeError", slides |-> <<>>]
            ELSE LoadSlidesLoop(fsys, path, slide_names, 1, <<>>)

\* SimplePptxEditor(path)
pptx_init(fsys, path) ==
    LET r == load_slides(fsys, path)
    IN IF r.status = "ok"
       THEN [status |-> "ok",
             ed |-> [kind |-> "pptx", path |-> path, root |-> NoTree,
                     slides |-> r.slides]]
       ELSE [status |-> r.status, ed |-> NoEditor]

\* SimplePptxEditor._iter_text_nodes: the text nodes of the slides, in the
\* order of self._slides.values().
RECURSIVE SlidesTextNodes(_)
SlidesTextNodes(slides) ==
    IF slides = <<>> THEN <<>>
    ELSE TextNodes(slides[1].root) \o SlidesTextNodes(Tail(slides))

pptx_iter_text_nodes(e) == SlidesTextNodes(e.slides)

\* SimplePptxEditor.get_text(separator)
pptx_get_text(e, separator) ==
    Join(separator, CollectTexts(pptx_iter_text_nodes(e)))

\* The replace loop over the slides.
RECURSIVE ReplaceSlides(_, _, _)
ReplaceSlides(slides, old, new) ==
    IF slides = <<>> THEN [slides |-> <<>>, count |-> 0]
    ELSE LET first == ReplaceNode(slides[1].root, old, new)
             rest == ReplaceSlides(Tail(slides), old, new)
         IN [slides |-> <<[name |-> slides[1].name, root |-> first.node]>>
                            \o rest.slides,
             count |-> first.count + rest.count]

\* SimplePptxEditor.replace(old, new)
pptx_replace(e, old, new) ==
    IF SkipEmptyOld(old) THEN [ed |-> e, count |-> 0]
    ELSE LET r == ReplaceSlides(e.slides, old, new)
         IN [ed |-> [e EXCEPT !.slides = r.slides], count |-> r.count]

\* Variant: save writing the first slide only.
pptx_replacements_FirstOnly(e) ==
    <<[name |-> e.slides[1].name, data |-> tostring(e.slides[1].root)]>>

\* The replacements SimplePptxEditor.save builds: one per slide.
pptx_replacements(e) ==
    [k \in 1..Len(e.slides) |->
        [name |-> e.slides[k].name, data |-> tostring(e.slides[k].root)]]

\* SimplePptxEditor.save(output_path)
pptx_save(fsys, e, output_path, now) ==
    rewrite_zip(fsys, e.path, output_path, pptx_replacements(e), None, now)

\* =========================================================================
\* Part 3: filesmith.transfer.transfer_files and filesmith.core.copy_files.
\*
\* A disk is [dirs, files]: the directories that exist and, for every file
\* path [dir, name], the content of the file there (Absent when there is
\* none).  Every initial file has a content of its own, so that a content
\* tells where it came from.
\* =========================================================================

\* ----------------------------------------------------------------- bounds
MaxFiles == 2

\* ------------------------------------------------------------------ paths
Dirs == {"a", "b", "out"}
FileNames == {"x", "y"}
FilePath(dir, name) == [dir |-> dir, name |-> name]
AllPaths == {FilePath(d, n) : d \in Dirs, n \in FileNames}
Absent == ""

\* dest.exists()
Exists(disk, path) == disk.files[path] # Absent

\* dest_root.mkdir(parents=True, exist_ok=True)
mkdir(disk, dir) == [disk EXCEPT !.dirs = @ \cup {dir}]

\* dest_root / src.name
DestOf(dest_root, src) == FilePath(dest_root, src.name)

\* Variant: a copy that writes nothing.
copy2_Nothing(disk, src, dest) ==
    IF ~Exists(disk, src) THEN [disk |-> disk, status |-> "FileNotFoundError"]
    ELSE IF src = dest THEN [disk |-> disk, status |-> "SameFileError"]
    ELSE [disk |-> disk, status |-> "ok"]

\* shutil.copy2(src, dest) for a destination path inside an existing
\* directory: the destination gets the content of the source.
copy2(disk, src, dest) ==
    IF ~Exists(disk, src) THEN [disk |-> disk, status |-> "FileNotFoundError"]
    ELSE IF src = dest THEN [disk |-> disk, status |-> "SameFileError"]
    ELSE [disk |-> [disk EXCEPT !.files[dest] = disk.files[src]],
          status |-> "ok"]

\* shutil.move(src, dest) for a destination that is no directory: os.rename,
\* which replaces an existing destination and does nothing when source and
\* destination are the same file.
move(disk, src, dest) ==
    IF ~Exists(disk, src) THEN [disk |-> disk, status |-> "FileNotFoundError"]
    ELSE IF src = dest THEN [disk |-> disk, status |-> "ok"]
    ELSE [disk |-> [disk EXCEPT !.files[dest] = disk.files[src],
                                !.files[src] = Absent],
          status |-> "ok"]

\* Variant: the skip policy not honoured.
ConflictSkips_Never(on_conflict) == FALSE

\* on_conflict == "skip", on_conflict == "error"
ConflictSkips(on_conflict) == on_conflict = "skip"
ConflictRaises(on_conflict) == on_conflict = "error"

Pair(src, dest) == [src |-> src, dest |-> dest]

\* One iteration of the loop of transfer_files for the file src; ops is the
\* local list.  status "ok" lets the loop go on.
transfer_step(disk, ops, src, dest_root, mode, on_conflict, dry_run) ==
    LET dest == DestOf(dest_root, src)
    IN IF Exists(disk, dest) /\ ConflictSkips(on_conflict)
       THEN [disk |-> disk, ops |-> ops, status |-> "ok"]
       ELSE IF Exists(disk, dest) /\ ConflictRaises(on_conflict)
       THEN [disk |-> disk, ops |-> ops, status |-> "FileExistsError"]
       ELSE IF dry_run
       THEN [disk |-> disk, ops |-> Append(ops, Pair(src, dest)),
             status |-> "ok"]
       ELSE LET r == IF mode = "copy" THEN copy2(disk, src, dest)
                     ELSE move(disk, src, dest)
            IN [disk |-> r.disk, ops |-> Append(ops, Pair(src, dest)),
                status |-> r.status]

\* The loop of transfer_files from the i-th file on.
RECURSIVE transfer_loop(_, _, _, _, _, _, _, _)
transfer_loop(disk, ops, files, i, dest_root, mode, on_conflict, dry_run) ==
    IF i > Len(files)
    THEN [disk |-> disk, ops |-> ops, status |-> "returned"]
    ELSE LET r == transfer_step(disk, ops, files[i], dest_root, mode,
                                on_conflict, dry_run)
         IN IF r.status # "ok" THEN r
            ELSE transfer_loop(r.disk, r.ops, files, i + 1, dest_root, mode,
                               on_conflict, dry_run)

\* transfer_files(files, dest_root, mode, on_conflict, dry_run) as a whole:
\* the disk it leaves, how it ends, and the list at that time.
transfer_files(disk, files, dest_root, mode, on_conflict, dry_run) ==
    transfer_loop(mkdir(disk, dest_root), <<>>, files, 1, dest_root, mode,
                  on_conflict, dry_run)

\* _ensure_destination_exists(destination, dry_run)
ensure_destination_exists(disk, destination, dry_run) ==
    IF destination \in disk.dirs THEN disk
    ELSE IF dry_run THEN disk
    ELSE mkdir(disk, destination)

\* re.search(pattern, filename) for the patterns and file names of the model:
\* "." matches every name, a letter matches the names that hold it.
Patterns == {".", "x", "z"}
Search(pattern, filename) == pattern = "." \/ pattern = filename

\* The files the walk of copy_files selects in origin (newermt not given).
Selected(disk, origin, pattern) ==
    {p \in AllPaths : /\ p.dir = origin
                      /\ Exists(disk, p)
                      /\ Search(pattern, p.name)}

\* The orders in which os.walk can list them: the order of a directory's
\* entries is the file system's.
Walks(disk, origin, pattern) ==
    {w \in [1..Cardinality(Selected(disk, origin, pattern)) ->
                Selected(disk, origin, pattern)] :
        \A i, j \in DOMAIN w : w[i] = w[j] => i = j}

\* ------------------------------------------------------------ state machine
\* fs   : the file system, Paths -> file
\* call : the call in progress or last made, with its arguments and the file
\*        system it started from (pre)
\* ret  : how that call ended and what the caller got
\* ed   : the editor object the program holds (NoEditor when it holds none)
\* op   : the last editor operation, its arguments, how it ended and what it
\*        returned, with the editor and the file system it started from;
\*        saved, out and edits tell what the program has done so far: whether
\*        it has saved, where to, and how many replace calls it has made
\* disk : the directories and files transfer_files and copy_files work on
\* xfer : the transfer_files or copy_files call in progress or last made: its
\*        arguments, the loop's position i and local list ops, how it ended
\*        and what the caller got, the disk at the call (pre) and before the
\*        last iteration (prev), whether that iteration found its destination
\*        (hit) and appended its pair (acted), and the files another process
\*        removed meanwhile
VARIABLES fs, call, ret, ed, op, disk, xfer

vars == <<fs, call, ret, ed, op, disk, xfer>>

NoCall == [op |-> "none", src |-> "", dst |-> "", replacements |-> <<>>,
           drop |-> None, members |-> <<>>, member |-> "", now |-> "",
           pre |-> <<>>]
NoRet == [status |-> "none", missing |-> "", value |-> <<>>]
NoDisk == [dirs |-> {}, files |-> [p \in AllPaths |-> Absent]]
NoResult == [given |-> FALSE, pairs |-> <<>>]
NoXfer == [op |-> "none", files |-> <<>>, dest_root |-> "", mode |-> "",
           on_conflict |-> "", dry_run |-> FALSE, origin |-> "",
           pattern |-> "", i |-> 0, ops |-> <<>>, status |-> "idle",
           result |-> NoResult, pre |-> NoDisk, prev |-> NoDisk,
           hit |-> FALSE, acted |-> FALSE, removed |-> {}]
NoOp == [name |-> "none", kind |-> "none", path |-> "", sep |-> <<>>,
         old |-> <<>>, new |-> <<>>, status |-> "none", text |-> <<>>,
         count |-> 0, pre_ed |-> NoEditor, pre_fs |-> <<>>,
         saved |-> FALSE, out |-> "", edits |-> 0]

\* A file an earlier run left at the output path.
OldArchive == <<[name |-> "c", data |-> "y",
                 meta |-> [method |-> ZIP_STORED, ts |-> "t0", perm |-> "0644"]]>>

InitZip ==
    /\ fs \in {f \in [Paths -> {NoFile} \cup {File(es) : es \in Archives}] :
                 f["p2"] \in {NoFile, File(OldArchive)}}
    /\ call = NoCall
    /\ ret = NoRet
    /\ ed = NoEditor
    /\ op = NoOp
    /\ disk = NoDisk
    /\ xfer = NoXfer

ListMembers ==
    /\ call.op = "none"
    /\ \E zip_path \in Paths :
        LET r == list_members(fs, zip_path)
        IN /\ call' = [NoCall EXCEPT !.op = "list_members", !.src = zip_path,
                                      !.pre = fs]
           /\ ret' = [NoRet EXCEPT !.status = r.status, !.value = r.value]
           /\ fs' = fs
           /\ UNCHANGED <<ed, op, disk, xfer>>

LoadMember ==
    /\ call.op = "none"
    /\ \E zip_path \in Paths, member \in Names :
        LET r == load_member(fs, zip_path, member)
        IN /\ call' = [NoCall EXCEPT !.op = "load_member", !.src = zip_path,
                                      !.member = member, !.pre = fs]
           /\ ret' = [NoRet EXCEPT !.status = r.status, !.value = r.value]
           /\ fs' = fs
           /\ UNCHANGED <<ed, op, disk, xfer>>

LoadMembers ==
    /\ call.op = "none"
    /\ \E zip_path \in Paths, members \in SeqsUpTo(Names, MaxReq) :
        LET r == load_members(fs, zip_path, members)
        IN /\ call' = [NoCall EXCEPT !.op = "load_members", !.src = zip_path,
                                      !.members = members, !.pre = fs]
           /\ ret' = [status |-> r.status, missing |-> r.missing,
                      value |-> r.value]
           /\ fs' = fs
           /\ UNCHANGED <<ed, op, disk, xfer>>

LoadAll ==
    /\ call.op = "none"
    /\ \E zip_path \in Paths :
        LET r == load_all(fs, zip_path)
        IN /\ call' = [NoCall EXCEPT !.op = "load_all", !.src = zip_path,
                                      !.pre = fs]
           /\ ret' = [NoRet EXCEPT !.status = r.status, !.value = r.value]
           /\ fs' = fs
           /\ UNCHANGED <<ed, op, disk, xfer>>

RewriteZip ==
    /\ call.op = "none"
    /\ \E zip_path \in Paths, output_path \in Paths,
          replacements \in ReplMappings, drop \in DropArgs, now \in Times :
        LET r == rewrite_zip(fs, zip_path, output_path, replacements, drop, now)
        IN /\ call' = [NoCall EXCEPT !.op = "rewrite_zip", !.src = zip_path,
                                      !.dst = output_path,
                                      !.replacements = replacements,
                                      !.drop = drop, !.now = now, !.pre = fs]
           /\ ret' = [NoRet EXCEPT !.status = r.status]
           /\ fs' = r.fs
           /\ UNCHANGED <<ed, op, disk, xfer>>

CopyZip ==
    /\ call.op = "none"
    /\ \E src \in Paths, dst \in Paths :
        LET r == copy_zip(fs, src, dst)
        IN /\ call' = [NoCall EXCEPT !.op = "copy_zip", !.src = src,
                                      !.dst = dst, !.pre = fs]
           /\ ret' = [NoRet EXCEPT !.status = r.status]
           /\ fs' = r.fs
           /\ UNCHANGED <<ed, op, disk, xfer>>

NextZip ==
    \/ ListMembers
    \/ LoadMember
    \/ LoadMembers
    \/ LoadAll
    \/ RewriteZip
    \/ CopyZip

SpecZip == InitZip /\ [][NextZip]_vars

\* ------------------------------------------------- state machine of the editors
\* Packages the editors are opened on.  Member names are piece sequences,
\* member bytes are [kind, root] records.
Bin == [kind |-> "bin", root |-> NoTree]
PkgMeta == [method |-> ZIP_STORED, ts |-> "t0", perm |-> "0644"]
Member(name, data) == [name |-> name, data |-> data, meta |-> PkgMeta]

RelsName == <<"_rels/", ".rels">>
SlideName(suffix) == SLIDES_PREFIX \o SLIDE_BASENAME \o suffix \o SLIDE_EXT
SlideRelsName == SLIDES_PREFIX \o <<"_rels/", "slide", "1", ".xml", ".rels">>

WT(text) == Elem(W_T, text, <<>>)
AT(text) == Elem(A_T, text, <<>>)
WNode(local, text, kids) == Elem(Tag("w", local), text, kids)
ANode(local, kids) == Elem(Tag("a", local), <<>>, kids)

\* word/document.xml with three runs (the middle one empty) in one paragraph,
\* and a paragraph holding text of its own, a t element of another namespace
\* and a t element of no namespace.
Document1 ==
    WNode("document", <<>>, <<
        WNode("body", <<>>, <<
            WNode("p", <<>>, <<
                WNode("r", <<>>, <<WT(<<"a">>)>>),
                WNode("r", <<>>, <<WT(<<>>)>>),
                WNode("r", <<>>, <<WT(<<"b", "a">>)>>)>>),
            WNode("p", <<"x">>, <<
                Elem(Tag("o", "t"), <<"a", "a">>, <<>>),
                Elem(Tag("", "t"), <<"b">>, <<>>)>>)>>)>>)

\* word/document.xml whose texts are written with character references.
Document2 ==
    WNode("document", <<>>, <<
        WNode("p", <<>>, <<WT(<<"a", "&#13;">>), WT(<<"&amp;", "b">>)>>)>>)

Slide1 ==
    Elem(Tag("p", "sld"), <<>>, <<
        ANode("p", <<ANode("r", <<AT(<<"a">>)>>),
                     ANode("r", <<AT(<<"b">>)>>)>>)>>)
Slide2 ==
    Elem(Tag("p", "sld"), <<>>, <<
        ANode("p", <<ANode("r", <<AT(<<"b", "a">>)>>)>>),
        ANode("p", <<ANode("r", <<AT(<<>>)>>)>>)>>)
Slide3 == Elem(Tag("p", "sld"), <<>>, <<AT(<<"a", "a">>)>>)

DocxPackages ==
    {<<Member(RelsName, Bin), Member(DOCUMENT_XML, XmlBytes(Document1))>>,
     <<Member(DOCUMENT_XML, XmlBytes(Document2))>>,
     <<Member(DOCUMENT_XML, Malformed)>>,
     <<Member(DOCUMENT_XML, BadEncoding), Member(RelsName, Bin)>>}

PptxPackages ==
    {<<Member(SlideName(<<"2">>), XmlBytes(Slide2)),
       Member(RelsName, Bin),
       Member(SlideName(<<"1">>), XmlBytes(Slide1))>>,
     <<Member(SlideName(<<"A">>), XmlBytes(Slide3)),
       Member(SlideName(<<"1">>), XmlBytes(Slide1)),
       Member(SlideRelsName, Bin),
       Member(SlideName(<<"s/", "x">>), XmlBytes(Slide2))>>,
     <<Member(SlideName(<<"1">>), XmlBytes(Slide1)),
       Member(SlideName(<<"2">>), Malformed)>>,
     <<Member(SlideName(<<"1">>), XmlBytes(Slide1)),
       Member(SlideName(<<"2">>), BadEncoding)>>}

\* A file an earlier run left at the output path.
OldPackage == <<Member(RelsName, [kind |-> "old", root |-> NoTree])>>

\* The arguments of the calls.
Separators == {<<>>, <<"-">>}
OldTexts == Texts({"a", "b"}, MaxText)
NewTexts == {<<>>, <<"a">>, <<CR>>}

InitEditor ==
    /\ fs \in {f \in [Paths -> {NoFile} \cup
                        {File(es) : es \in DocxPackages \cup PptxPackages
                                              \cup {OldPackage}}] :
                 /\ f["p1"] \notin {NoFile, File(OldPackage)}
                 /\ f["p2"] \in {NoFile, File(OldPackage)}}
    /\ call = NoCall
    /\ ret = NoRet
    /\ ed = NoEditor
    /\ op = NoOp
    /\ disk = NoDisk
    /\ xfer = NoXfer

\* The programs considered open a package, read and edit it, save it once,
\* and reopen and read what they saved.  A program goes on after a call that
\* returned; an exception ends it.
Alive == op.status \in {"none", "ok", "returned"}

\* editor = SimpleDocxEditor(path), as the first editor of the program or to
\* reopen what a save has written.
DocxConstruct ==
    /\ Alive
    /\ op.name \in {"none", "save"}
    /\ \E path \in Paths :
        LET r == docx_init(fs, path)
        IN /\ ed' = r.ed
           /\ op' = [NoOp EXCEPT !.name = "init", !.kind = "docx",
                                  !.path = path, !.status = r.status,
                                  !.pre_ed = ed, !.pre_fs = fs,
                                  !.saved = op.saved, !.out = op.out,
                                  !.edits = op.edits]
           /\ UNCHANGED <<fs, call, ret, disk, xfer>>

\* editor = SimplePptxEditor(path)
PptxConstruct ==
    /\ Alive
    /\ op.name \in {"none", "save"}
    /\ \E path \in Paths :
        LET r == pptx_init(fs, path)
        IN /\ ed' = r.ed
           /\ op' = [NoOp EXCEPT !.name = "init", !.kind = "pptx",
                                  !.path = path, !.status = r.status,
                                  !.pre_ed = ed, !.pre_fs = fs,
                                  !.saved = op.saved, !.out = op.out,
                                  !.edits = op.edits]
           /\ UNCHANGED <<fs, call, ret, disk, xfer>>

DocxGetText ==
    /\ Alive
    /\ ed.kind = "docx"
    /\ \E separator \in Separators :
        /\ op' = [NoOp EXCEPT !.name = "get_text", !.kind = "docx",
                               !.sep = separator, !.status = "ok",
                               !.text = docx_get_text(ed, separator),
                               !.pre_ed = ed, !.pre_fs = fs,
                               !.saved = op.saved, !.out = op.out,
                               !.edits = op.edits]
        /\ UNCHANGED <<fs, call, ret, ed, disk, xfer>>

PptxGetText ==
    /\ Alive
    /\ ed.kind = "pptx"
    /\ \E separator \in Separators :
        /\ op' = [NoOp EXCEPT !.name = "get_text", !.kind = "pptx",
                               !.sep = separator, !.status = "ok",
                               !.text = pptx_get_text(ed, separator),
                               !.pre_ed = ed, !.pre_fs = fs,
                               !.saved = op.saved, !.out = op.out,
                               !.edits = op.edits]
        /\ UNCHANGED <<fs, call, ret, ed, disk, xfer>>

DocxReplace ==
    /\ Alive
    /\ ed.kind = "docx"
    /\ ~op.saved
    /\ op.edits < MaxEdits
    /\ \E old \in OldTexts, new \in NewTexts :
        LET r == docx_replace(ed, old, new)
        IN /\ ed' = r.ed
           /\ op' = [NoOp EXCEPT !.name = "replace", !.kind = "docx",
                                  !.old = old, !.new = new, !.status = "ok",
                                  !.count = r.count,
                                  !.pre_ed = ed, !.pre_fs = fs,
                                  !.saved = op.saved, !.out = op.out,
                                  !.edits = op.edits + 1]
           /\ UNCHANGED <<fs, call, ret, disk, xfer>>

PptxReplace ==
    /\ Alive
    /\ ed.kind = "pptx"
    /\ ~op.saved
    /\ op.edits < MaxEdits
    /\ \E old \in OldTexts, new \in NewTexts :
        LET r == pptx_replace(ed, old, new)
        IN /\ ed' = r.ed
           /\ op' = [NoOp EXCEPT !.name = "replace", !.kind = "pptx",
                                  !.old = old, !.new = new, !.status = "ok",
                                  !.count = r.count,
                                  !.pre_ed = ed, !.pre_fs = fs,
                                  !.saved = op.saved, !.out = op.out,
                                  !.edits = op.edits + 1]
           /\ UNCHANGED <<fs, call, ret, disk, xfer>>

DocxSave ==
    /\ Alive
    /\ ed.kind = "docx"
    /\ ~op.saved
    /\ \E output_path \in Paths, now \in Times :
        LET r == docx_save(fs, ed, output_path, now)
        IN /\ fs' = r.fs
           /\ op' = [NoOp EXCEPT !.name = "save", !.kind = "docx",
                                  !.path = output_path, !.status = r.status,
                                  !.pre_ed = ed, !.pre_fs = fs,
                                  !.saved = TRUE, !.out = output_path,
                                  !.edits = op.edits]
           /\ UNCHANGED <<call, ret, ed, disk, xfer>>

PptxSave ==
    /\ Alive
    /\ ed.kind = "pptx"
    /\ ~op.saved
    /\ \E output_path \in Paths, now \in Times :
        LET r == pptx_save(fs, ed, output_path, now)
        IN /\ fs' = r.fs
           /\ op' = [NoOp EXCEPT !.name = "save", !.kind = "pptx",
                                  !.path = output_path, !.status = r.status,
                                  !.pre_ed = ed, !.pre_fs = fs,
                                  !.saved = TRUE, !.out = output_path,
                                  !.edits = op.edits]
           /\ UNCHANGED <<call, ret, ed, disk, xfer>>

NextEditor ==
    \/ DocxConstruct
    \/ PptxConstruct
    \/ DocxGetText
    \/ PptxGetText
    \/ DocxReplace
    \/ PptxReplace
    \/ DocxSave
    \/ PptxSave

SpecEditor == InitEditor /\ [][NextEditor]_vars

\* ------------------------------------------- state machine of the transfers
\* The source files a caller names (one of them lies in the destination
\* directory), the destination directory, and the arguments.
SrcPaths == {FilePath("a", "x"), FilePath("b", "x"), FilePath("a", "y"),
             FilePath("out", "x")}
DestRoots == {"out"}
Origins == {"a", "b"}
Modes == {"copy", "move"}
Policies == {"skip", "overwrite", "error"}

\* The disks a call starts from: a/x and b/x are there, a/y may be missing,
\* the destination directory may be missing, empty, or hold a file x.
InitDisks ==
    {d \in [dirs : {{"a", "b"}, {"a", "b", "out"}},
            files : [AllPaths -> {Absent, "ax", "bx", "ay", "ox"}]] :
        /\ d.files[FilePath("a", "x")] = "ax"
        /\ d.files[FilePath("b", "x")] = "bx"
        /\ d.files[FilePath("a", "y")] \in {Absent, "ay"}
        /\ d.files[FilePath("b", "y")] = Absent
        /\ d.files[FilePath("out", "x")] \in {Absent, "ox"}
        /\ d.files[FilePath("out", "y")] = Absent
        /\ (d.files[FilePath("out", "x")] # Absent => "out" \in d.dirs)}

InitTransfer ==
    /\ fs = [p \in Paths |-> NoFile]
    /\ call = NoCall
    /\ ret = NoRet
    /\ ed = NoEditor
    /\ op = NoOp
    /\ disk \in InitDisks
    /\ xfer = NoXfer

\* transfer_files(files, dest_root, mode, on_conflict, dry_run) up to its
\* loop: the destination directory is made, ops is empty.
TransferCall ==
    /\ xfer.op = "none"
    /\ \E files \in SeqsUpTo(SrcPaths, MaxFiles), dest_root \in DestRoots,
          mode \in Modes, on_conflict \in Policies, dry_run \in BOOLEAN :
        /\ xfer' = [NoXfer EXCEPT !.op = "transfer_files", !.files = files,
                                   !.dest_root = dest_root, !.mode = mode,
                                   !.on_conflict = on_conflict,
                                   !.dry_run = dry_run, !.i = 1,
                                   !.status = "running", !.pre = disk,
                                   !.prev = disk]
        /\ disk' = mkdir(disk, dest_root)
    /\ UNCHANGED <<fs, call, ret, ed, op>>

\* copy_files(origin, destination, pattern, dry_run=...) up to the loop of
\* the transfer_files call it makes: the destination is ensured, the walk
\* selects, and copy_files returns at once when nothing is selected.
CopyFilesCall ==
    /\ xfer.op = "none"
    /\ \E origin \in Origins, destination \in DestRoots, pattern \in Patterns,
          dry_run \in BOOLEAN :
        LET ensured == ensure_destination_exists(disk, destination, dry_run)
        IN \E selected_files \in Walks(ensured, origin, pattern) :
            LET started == [NoXfer EXCEPT !.op = "copy_files",
                                          !.origin = origin,
                                          !.pattern = pattern,
                                          !.files = selected_files,
                                          !.dest_root = destination,
                                          !.mode = "copy",
                                          !.on_conflict = "overwrite",
                                          !.dry_run = dry_run, !.i = 1,
                                          !.pre = disk, !.prev = disk]
            IN IF selected_files = <<>>
               THEN /\ xfer' = [started EXCEPT !.status = "returned"]
                    /\ disk' = ensured
               ELSE /\ xfer' = [started EXCEPT !.status = "running"]
                    /\ disk' = mkdir(ensured, destination)
    /\ UNCHANGED <<fs, call, ret, ed, op>>

\* One iteration of the loop of transfer_files.  An exception leaves i at
\* the file that raised.
TransferStep ==
    /\ xfer.status = "running"
    /\ xfer.i <= Len(xfer.files)
    /\ LET r == transfer_step(disk, xfer.ops, xfer.files[xfer.i],
                              xfer.dest_root, xfer.mode, xfer.on_conflict,
                              xfer.dry_run)
       IN /\ disk' = r.disk
          /\ xfer' = [xfer EXCEPT
                        !.ops = r.ops,
                        !.i = IF r.status = "ok" THEN @ + 1 ELSE @,
                        !.status = IF r.status = "ok" THEN "running"
                                   ELSE r.status,
                        !.prev = disk,
                        !.hit = Exists(disk, DestOf(xfer.dest_root,
                                                    xfer.files[xfer.i])),
                        !.acted = Len(r.ops) > Len(xfer.ops)]
    /\ UNCHANGED <<fs, call, ret, ed, op>>

\* `return ops`; copy_files then logs and returns None.
TransferReturn ==
    /\ xfer.status = "running"
    /\ xfer.i > Len(xfer.files)
    /\ xfer' = [xfer EXCEPT
                  !.status = "returned",
                  !.result = IF xfer.op = "transfer_files"
                             THEN [given |-> TRUE, pairs |-> xfer.ops]
                             ELSE NoResult]
    /\ UNCHANGED <<fs, call, ret, ed, op, disk>>

\* Another process removes a file the walk of copy_files has selected,
\* before the loop reaches it.
RemovedByOther ==
    /\ xfer.op = "copy_files"
    /\ xfer.status = "running"
    /\ xfer.removed = {}
    /\ \E k \in xfer.i..Len(xfer.files) :
        /\ Exists(disk, xfer.files[k])
        /\ disk' = [disk EXCEPT !.files[xfer.files[k]] = Absent]
        /\ xfer' = [xfer EXCEPT !.removed = {xfer.files[k]}]
    /\ UNCHANGED <<fs, call, ret, ed, op>>

NextTransfer ==
    \/ TransferCall
    \/ CopyFilesCall
    \/ TransferStep
    \/ TransferReturn
    \/ RemovedByOther

SpecTransfer == InitTransfer /\ [][NextTransfer]_vars

\* ================================================= archive rewriter properties
\* What the properties speak of: the source archive A as it was before the call,
\* the archive at the output path after it, the keys of replacements.
SrcEntries == call.pre[call.src].entries
OutEntries == fs[call.dst].entries
SrcNames == NameSet(SrcEntries)
OutNames == NameSet(OutEntries)
ReplKeys == NameSet(call.replacements)
DropNames == call.drop.names
RewriteReturned == call.op = "rewrite_zip" /\ ret.status = "returned"
CopyReturned == call.op = "copy_zip" /\ ret.status = "returned"
\* The output members with a given name.
OutAt(n) == {p \in 1..Len(OutEntries) : OutEntries[p].name = n}
SrcAt(n) == {i \in 1..Len(SrcEntries) : SrcEntries[i].name = n}

\* C1: when replacements and drop name disjoint sets, the names of the
\* archive rewrite_zip wrote are (names(A) - drop) union (keys(replacements)
\* - names(A)).
C1_OutputNames ==
    (RewriteReturned /\ ReplKeys \cap DropNames = {})
        => OutNames = (SrcNames \ DropNames) \cup (ReplKeys \ SrcNames)

\* The scenario of the test: one member kept, one replaced, one dropped, one
\* added.
C1_Witness ==
    /\ RewriteReturned
    /\ ReplKeys \cap DropNames = {}
    /\ call.src # call.dst
    /\ SrcNames \cap DropNames # {}
    /\ SrcNames \cap ReplKeys # {}
    /\ ReplKeys \ SrcNames # {}
    /\ OutNames # SrcNames

\* C2: a name in both drop and replacements has no member in the output,
\* whether or not the source has it.
C2_DropWins ==
    RewriteReturned => \A n \in DropNames \cap ReplKeys : n \notin OutNames

\* C3: no name occurs twice in the output, and every source member neither
\* dropped nor replaced has a member of its name there; drop and
\* replacements may overlap.  (The witness: a source member that is dropped
\* and named by replacements, an untouched one, and an added one.)
C3_NoDuplicateNoLoss ==
    RewriteReturned =>
        /\ UniqueNames(OutEntries)
        /\ \A n \in SrcNames \ (DropNames \cup ReplKeys) : n \in OutNames

C3_Witness ==
    /\ RewriteReturned
    /\ (DropNames \cap ReplKeys) \cap SrcNames # {}
    /\ SrcNames \ (DropNames \cup ReplKeys) # {}
    /\ ReplKeys \ SrcNames # {}
    /\ Len(OutEntries) = 3

\* C4: the members that come from the source are first, in the source's
\* order; the added ones follow, in the order replacements yields them.
C4_Order ==
    RewriteReturned =>
        LET fromSrc == SrcNames \ DropNames
            added == OutNames \ fromSrc
        IN /\ FilterSeq(NameSeq(OutEntries), fromSrc)
                = FilterSeq(NameSeq(SrcEntries), fromSrc)
           /\ FilterSeq(NameSeq(OutEntries), added)
                = FilterSeq(NameSeq(call.replacements), added)
           /\ \A p, q \in 1..Len(OutEntries) :
                (OutEntries[p].name \in fromSrc /\ OutEntries[q].name \in added)
                    => p < q

\* One source member kept, two members added, the replacements naming the
\* added ones in an order that is not the alphabetical one.
C4_Witness ==
    /\ RewriteReturned
    /\ NameSeq(SrcEntries) = <<"b">>
    /\ NameSeq(call.replacements) = <<"c", "a">>
    /\ NameSeq(OutEntries) = <<"b", "c", "a">>

\* C5: a source member neither dropped nor replaced is in the output with the
\* content and the metadata (timestamp, compression method, permission bits)
\* it has in the source.
C5_UntouchedVerbatim ==
    RewriteReturned =>
        \A i \in 1..Len(SrcEntries) :
            SrcEntries[i].name \notin (DropNames \cup ReplKeys)
                => \E p \in 1..Len(OutEntries) : OutEntries[p] = SrcEntries[i]

\* An untouched member whose metadata is not the default one, next to a
\* replaced member.
C5_Witness ==
    /\ RewriteReturned
    /\ \E i \in 1..Len(SrcEntries) :
        /\ SrcEntries[i].name \notin (DropNames \cup ReplKeys)
        /\ SrcEntries[i].meta # DefaultMeta(call.now)
        /\ SrcEntries[i] \in Range(OutEntries)
    /\ SrcNames \cap ReplKeys # {}

\* C6: a replacement of a source member that is not dropped gives an output
\* member with the source member's metadata and the replacement bytes; a
\* replacement naming no source member gives an output member with default
\* metadata (deflate) and the replacement bytes.
C6_ReplacedAndAdded ==
    RewriteReturned =>
        \A n \in ReplKeys :
            /\ (n \in SrcNames \ DropNames) =>
                    /\ OutAt(n) # {}
                    /\ \A p \in OutAt(n), i \in SrcAt(n) :
                        /\ OutEntries[p].meta = SrcEntries[i].meta
                        /\ OutEntries[p].data = ReplGet(call.replacements, n)
            /\ (n \notin SrcNames) =>
                    /\ OutAt(n) # {}
                    /\ \A p \in OutAt(n) :
                        /\ OutEntries[p].meta = DefaultMeta(call.now)
                        /\ OutEntries[p].meta.method = ZIP_DEFLATED
                        /\ OutEntries[p].data = ReplGet(call.replacements, n)

\* A stored member replaced by other bytes and a member added.
C6_Witness ==
    /\ RewriteReturned
    /\ \E n \in ReplKeys \cap (SrcNames \ DropNames) : \E i \in SrcAt(n) :
        /\ SrcEntries[i].meta.method = ZIP_STORED
        /\ SrcEntries[i].data # ReplGet(call.replacements, n)
        /\ OutAt(n) # {}
    /\ \E n \in ReplKeys \ SrcNames : OutAt(n) # {}

\* C7: whatever the output path and however the call ends, the source file
\* is after the call what it was before it.
C7_SourceUntouched ==
    call.op = "rewrite_zip" => fs[call.src] = call.pre[call.src]

\* C8: after copy_zip(A, B), list_members(B) is list_members(A) and every
\* member of B has the bytes of the member of that name in A.
C8_CopyNamesAndBytes ==
    CopyReturned =>
        /\ list_members(fs, call.dst).status = "returned"
        /\ list_members(fs, call.dst).value
                = list_members(call.pre, call.src).value
        /\ \A n \in OutNames :
                load_member(fs, call.dst, n)
                    = load_member(call.pre, call.src, n)

\* Two members with different bytes copied to another path, over a file
\* that was there.
C8_Witness ==
    /\ CopyReturned
    /\ call.src # call.dst
    /\ call.pre[call.dst].exists
    /\ Len(SrcEntries) = 2
    /\ SrcEntries[1].data # SrcEntries[2].data
    /\ Len(OutEntries) = 2

\* C9: copy_zip(src, dst) ends as rewrite_zip(src, dst, replacements={},
\* drop=None) ends from the same file system, and leaves the same archive:
\* the same members in the same order with the same content and metadata.
C9_CopyIsEmptyRewrite ==
    call.op = "copy_zip" =>
        \A now \in Times :
            LET r == rewrite_zip(call.pre, call.src, call.dst, <<>>, None, now)
            IN /\ r.status = ret.status
               /\ r.fs = fs

C9_Witness ==
    /\ CopyReturned
    /\ call.src # call.dst
    /\ Len(OutEntries) = 2
    /\ OutEntries[1].meta # OutEntries[2].meta
    /\ \E e \in Range(OutEntries) : \A now \in Times : e.meta # DefaultMeta(now)

\* =================================================== archive reader properties
\* The first requested name the archive lacks, 0 when it has them all.
FirstMissing(es, members) ==
    IF \A k \in 1..Len(members) : HasMember(es, members[k]) THEN 0
    ELSE CHOOSE k \in 1..Len(members) :
            /\ ~HasMember(es, members[k])
            /\ \A h \in 1..(k - 1) : HasMember(es, members[h])

\* C10: load_members on an archive that lacks a requested name raises
\* KeyError for the first such name of the request and hands the caller no
\* mapping; otherwise it returns a mapping whose keys are exactly the
\* requested names, each with that member's bytes.
C10_AllOrNothing ==
    (call.op = "load_members" /\ call.pre[call.src].exists) =>
        LET m == FirstMissing(SrcEntries, call.members)
        IN IF m # 0
           THEN /\ ret.status = "KeyError"
                /\ ret.missing = call.members[m]
                /\ ret.value = <<>>
           ELSE /\ ret.status = "returned"
                /\ DOMAIN ret.value = Range(call.members)
                /\ \A n \in Range(call.members) :
                        ret.value[n] = MemberData(SrcEntries, n)

\* A request whose first name the archive has and whose second it lacks.
C10_Witness ==
    /\ call.op = "load_members"
    /\ call.pre[call.src].exists
    /\ Len(call.members) = 2
    /\ HasMember(SrcEntries, call.members[1])
    /\ ~HasMember(SrcEntries, call.members[2])
    /\ ret.status = "KeyError"
    /\ ret.missing = call.members[2]

\* ============================================================ editor properties
\* What the properties speak of: the package the last constructor call was
\* given, the package a save read and the package it wrote.
Constructed(kind) == op.name = "init" /\ op.kind = kind
OpenedFile == op.pre_fs[op.path]
OpenedEntries == OpenedFile.entries
Replaced == op.name = "replace"
Saved(kind) == op.name = "save" /\ op.kind = kind /\ op.status = "returned"
SavedFrom == op.pre_fs[ed.path].entries
SavedTo == fs[op.path].entries

\* Bytes that are a well-formed document, and the tree they stand for.
Parses(bytes) == bytes.kind = "xml"
ParseOf(bytes) == DecodeTree(bytes.root)

\* A name of the shape ppt/slides/slide*.xml, and one whose * is digits.
HasSlideShape(name) ==
    /\ StartsWith(name, <<"ppt/slides/", "slide">>)
    /\ EndsWith(name, <<".xml">>)
HasNumericSlideForm(name) ==
    /\ HasSlideShape(name)
    /\ Len(name) > 3
    /\ \A k \in 3..(Len(name) - 1) : name[k] \in {"0", "1", "2"}

ShapedNames(es) == {n \in NameSet(es) : HasSlideShape(n)}

\* A package the constructor cannot load.
DocxUnloadable(es) ==
    \/ ~HasMember(es, <<"word/document.xml">>)
    \/ ~Parses(MemberData(es, <<"word/document.xml">>))
PptxUnloadable(es) ==
    \/ ShapedNames(es) = {}
    \/ \E n \in ShapedNames(es) : ~Parses(MemberData(es, n))

\* C11: constructing an editor fails with FileNotFoundError when the package
\* is absent and with RuntimeError when the package exists but cannot be
\* loaded (docx: word/document.xml missing or not parsing; pptx: no slide
\* entry, or a slide entry not parsing); a failed construction leaves no
\* editor, a successful one holds the parse of every loaded entry.
C11_ConstructOutcome ==
    /\ op.name = "init" =>
        /\ ~OpenedFile.exists => op.status = "FileNotFoundError"
        /\ op.status # "ok" => ed = NoEditor
    /\ (Constructed("docx") /\ OpenedFile.exists) =>
        IF DocxUnloadable(OpenedEntries)
        THEN op.status = "RuntimeError"
        ELSE /\ op.status = "ok"
             /\ ed.root = ParseOf(MemberData(OpenedEntries, <<"word/document.xml">>))
    /\ (Constructed("pptx") /\ OpenedFile.exists) =>
        IF PptxUnloadable(OpenedEntries)
        THEN op.status = "RuntimeError"
        ELSE /\ op.status = "ok"
             /\ \A k \in 1..Len(ed.slides) :
                    ed.slides[k].root =
                        ParseOf(MemberData(OpenedEntries, ed.slides[k].name))

\* C12 as stated: the pptx editor loads exactly the entries named
\* ppt/slides/slide<digits>.xml.
C12_NumericSlidesOnly ==
    (Constructed("pptx") /\ op.status = "ok") =>
        NameSet(ed.slides) =
            {n \in NameSet(OpenedEntries) : HasNumericSlideForm(n)}

\* C12, amended: the pptx editor loads exactly the entries whose name starts
\* with ppt/slides/slide and ends with .xml, the ones with a numeric suffix
\* among them; save rewrites no entry of another name.
C12_SlidePattern ==
    /\ (Constructed("pptx") /\ op.status = "ok") =>
        /\ NameSet(ed.slides) = ShapedNames(OpenedEntries)
        /\ \A n \in NameSet(OpenedEntries) :
                HasNumericSlideForm(n) => n \in NameSet(ed.slides)
    /\ Saved("pptx") =>
        \A i \in 1..Len(SavedFrom) :
            ~HasSlideShape(SavedFrom[i].name) =>
                /\ i <= Len(SavedTo)
                /\ SavedTo[i] = SavedFrom[i]

\* A saved presentation with a loaded slide whose suffix is not numeric, a
\* loaded slide of a sub-directory, and an entry under ppt/slides/ that is
\* not loaded.
C12_Witness ==
    /\ Saved("pptx")
    /\ \E n \in NameSet(ed.slides) : ~HasNumericSlideForm(n) /\ Len(n) = 4
    /\ \E n \in NameSet(ed.slides) : Len(n) = 5
    /\ \E n \in NameSet(SavedTo) :
            StartsWith(n, <<"ppt/slides/">>) /\ n \notin NameSet(ed.slides)

\* The texts of the text nodes of a tree (the elements of local name t in a
\* namespace), in document order, the empty ones included.
RECURSIVE TreeTexts(_)
RECURSIVE ForestTexts(_)
TreeTexts(node) ==
    (IF node.tag.ns # "" /\ node.tag.local = "t" THEN <<node.text>> ELSE <<>>)
        \o ForestTexts(node.kids)
ForestTexts(nodes) ==
    IF nodes = <<>> THEN <<>>
    ELSE TreeTexts(nodes[1]) \o ForestTexts(Tail(nodes))

\* The texts of the text nodes of an editor: of the document, or of the
\* slides one after the other.
RECURSIVE SlideTexts(_)
SlideTexts(slides) ==
    IF slides = <<>> THEN <<>>
    ELSE TreeTexts(slides[1].root) \o SlideTexts(Tail(slides))
EditorTexts(e) ==
    IF e.kind = "docx" THEN TreeTexts(e.root) ELSE SlideTexts(e.slides)

IsNonEmpty(text) == text # <<>>
NonEmpty(texts) == SelectSeq(texts, IsNonEmpty)

GotText(kind) == op.name = "get_text" /\ op.kind = kind

\* C13 as stated: docx get_text(separator) is the separator-join of the texts
\* of all text nodes in document order, none skipped.
C13_JoinOfEveryNode ==
    GotText("docx") => op.text = Join(op.sep, TreeTexts(ed.root))

\* C13, amended: docx get_text(separator) is the separator-join of the texts
\* of the text nodes that have text, in document order; a text node with no
\* text gives neither characters nor a separator.
C13_JoinOfNonEmptyNodes ==
    GotText("docx") => op.text = Join(op.sep, NonEmpty(TreeTexts(ed.root)))

\* get_text with a separator on a document whose text nodes in document
\* order are: with text, empty, with text, and a t node of another namespace;
\* the document also has text outside its text nodes.
C13_Witness ==
    /\ GotText("docx")
    /\ op.sep = <<"-">>
    /\ op.edits = 0
    /\ TreeTexts(ed.root) = <<<<"a">>, <<>>, <<"b", "a">>, <<"a", "a">>>>
    /\ op.text = <<"a", "-", "b", "a", "-", "a", "a">>

\* C14 as stated: pptx get_text(separator) joins the texts of every text
\* node of all slides, none skipped, the slides in ascending order of their
\* entry names whatever the archive order, the nodes of a slide in document
\* order, with the separator between every two consecutive nodes.
C14_EveryNodeInNameOrder ==
    GotText("pptx") =>
        /\ \A k \in 1..(Len(ed.slides) - 1) :
                NameLess(ed.slides[k].name, ed.slides[k + 1].name)
        /\ op.text = Join(op.sep, SlideTexts(ed.slides))

\* C14, amended: pptx get_text(separator) joins the texts of the text nodes
\* that have text, of all slides, the slides in ascending order of their
\* entry names whatever the archive order, the nodes of a slide in document
\* order, with the separator between every two consecutive collected nodes;
\* a text node with no text gives neither characters nor a separator.
C14_SlidesInNameOrder ==
    GotText("pptx") =>
        /\ \A k \in 1..(Len(ed.slides) - 1) :
                NameLess(ed.slides[k].name, ed.slides[k + 1].name)
        /\ op.text = Join(op.sep, NonEmpty(SlideTexts(ed.slides)))

\* get_text with a separator on the presentation whose archive lists slide2
\* before slide1: the two runs of slide1's paragraph, then slide2, whose last
\* text node is empty and is skipped.
C14_Witness ==
    /\ GotText("pptx")
    /\ op.sep = <<"-">>
    /\ op.edits = 0
    /\ op.pre_fs[ed.path].entries[1].name = <<"ppt/slides/", "slide", "2", ".xml">>
    /\ op.pre_fs[ed.path].entries[3].name = <<"ppt/slides/", "slide", "1", ".xml">>
    /\ SlideTexts(ed.slides) = <<<<"a">>, <<"b">>, <<"b", "a">>, <<>>>>
    /\ op.text = <<"a", "-", "b", "-", "b", "a">>

\* The number of text nodes of the editor whose text contains old.
NodesContaining(e, old) ==
    Cardinality({k \in 1..Len(EditorTexts(e)) :
                    \E i \in 1..Len(EditorTexts(e)[k]) :
                        /\ i + Len(old) - 1 <= Len(EditorTexts(e)[k])
                        /\ SubSeq(EditorTexts(e)[k], i, i + Len(old) - 1) = old})

\* C15 as stated: for a non-empty old, replace(old, new) returns the number
\* of text nodes whose text contains old at the time of the call.
C15_CountContaining ==
    (Replaced /\ op.old # <<>>) => op.count = NodesContaining(op.pre_ed, op.old)

\* C15, amended: for a non-empty old, replace(old, new) returns the number of
\* text nodes it modified: the number of text nodes whose text contains old
\* when new differs from old, and 0 when new equals old.
C15_CountModified ==
    (Replaced /\ op.old # <<>>) =>
        op.count = IF op.new = op.old THEN 0
                   ELSE NodesContaining(op.pre_ed, op.old)

\* A replace that counts three nodes holding four occurrences of old.
C15_Witness ==
    /\ Replaced
    /\ op.kind = "docx"
    /\ op.old = <<"a">>
    /\ op.new = <<CR>>
    /\ TreeTexts(op.pre_ed.root) = <<<<"a">>, <<>>, <<"b", "a">>, <<"a", "a">>>>
    /\ op.count = 3

\* text with every occurrence of a non-empty old replaced by new, the
\* occurrences taken from the left.
RECURSIVE ReplaceAll(_, _, _)
ReplaceAll(text, old, new) ==
    IF Len(text) < Len(old) THEN text
    ELSE IF SubSeq(text, 1, Len(old)) = old
    THEN new \o ReplaceAll(SubSeq(text, Len(old) + 1, Len(text)), old, new)
    ELSE <<text[1]>> \o ReplaceAll(Tail(text), old, new)

\* A tree without the texts of its text nodes: what replace must keep.
RECURSIVE Blank(_)
RECURSIVE BlankAll(_)
Blank(node) ==
    Elem(node.tag,
         IF node.tag.ns # "" /\ node.tag.local = "t" THEN <<>> ELSE node.text,
         BlankAll(node.kids))
BlankAll(nodes) ==
    IF nodes = <<>> THEN <<>>
    ELSE <<Blank(nodes[1])>> \o BlankAll(Tail(nodes))
Skeleton(e) ==
    [e EXCEPT !.root = Blank(e.root),
              !.slides = [k \in 1..Len(e.slides) |->
                            [name |-> e.slides[k].name,
                             root |-> Blank(e.slides[k].root)]]]

\* get_text of either editor.
EditorGetText(e, separator) ==
    IF e.kind = "docx" THEN docx_get_text(e, separator)
    ELSE pptx_get_text(e, separator)

\* C16: after replace(old, new) with a non-empty old, every text node holds
\* its previous text with every occurrence of old replaced by new, get_text
\* yields the join of those texts, and the tree is otherwise as it was: the
\* same nodes in the same order, the other texts untouched.
C16_EveryOccurrenceInPlace ==
    (Replaced /\ op.old # <<>>) =>
        LET pre == EditorTexts(op.pre_ed)
            post == EditorTexts(ed)
            expected == [k \in 1..Len(pre) |-> ReplaceAll(pre[k], op.old, op.new)]
        IN /\ post = expected
           /\ Skeleton(ed) = Skeleton(op.pre_ed)
           /\ \A separator \in Separators :
                EditorGetText(ed, separator) = Join(separator, NonEmpty(expected))

\* A replace on a presentation that rewrites both occurrences in one node,
\* one occurrence in others, and leaves a node without old as it was.
C16_Witness ==
    /\ Replaced
    /\ op.kind = "pptx"
    /\ op.old = <<"a">>
    /\ op.new = <<CR>>
    /\ EditorTexts(op.pre_ed) = <<<<"a">>, <<"b">>, <<"a", "a">>, <<"b", "a">>, <<>>>>
    /\ EditorTexts(ed) = <<<<CR>>, <<"b">>, <<CR, CR>>, <<"b", CR>>, <<>>>>
    /\ op.count = 3

\* C17: replace("", new) returns 0 and leaves the text of every node as it
\* was, whatever the document and new.
C17_EmptyOldIsNoOp ==
    (Replaced /\ op.old = <<>>) => (op.count = 0 /\ ed = op.pre_ed)

\* replace("", "a") on a document that has text.
C17_Witness ==
    /\ Replaced
    /\ op.kind = "docx"
    /\ op.old = <<>>
    /\ op.new = <<"a">>
    /\ NonEmpty(EditorTexts(op.pre_ed)) # <<>>
    /\ op.count = 0

\* C18: when no single text node contains old, replace(old, new) returns 0
\* and changes nothing, also when old occurs across the boundary of two
\* adjacent nodes and when an earlier replace has removed old.
C18_NoNodeNoChange ==
    (Replaced /\ op.old # <<>> /\ NodesContaining(op.pre_ed, op.old) = 0) =>
        (op.count = 0 /\ ed = op.pre_ed)

\* replace("ab", ..) on a presentation whose first two runs are "a" and "b":
\* the concatenated text holds "ab", no node does.
C18_Witness ==
    /\ Replaced
    /\ op.kind = "pptx"
    /\ op.old = <<"a", "b">>
    /\ op.new = <<CR>>
    /\ EditorTexts(op.pre_ed)[1] = <<"a">>
    /\ EditorTexts(op.pre_ed)[2] = <<"b">>
    /\ NodesContaining(op.pre_ed, op.old) = 0
    /\ op.count = 0
    /\ ed = op.pre_ed

\* The program has reopened, with an editor of the same class, the package
\* its save wrote; op.pre_ed is the editor that saved.
Reopened ==
    /\ op.name = "init"
    /\ op.saved
    /\ op.path = op.out
    /\ op.kind = op.pre_ed.kind

\* C19: round trip.  After any replace calls and a save(out), an editor
\* constructed from out returns from get_text the very string the saving
\* editor returns, for every separator.
C19_RoundTrip ==
    Reopened =>
        /\ op.status = "ok"
        /\ \A separator \in Separators :
                EditorGetText(ed, separator) = EditorGetText(op.pre_ed, separator)

\* The entries of the saved package that save replaces: the loaded ones.
LoadedNames(e) ==
    IF e.kind = "docx" THEN {<<"word/document.xml">>} ELSE NameSet(e.slides)
LoadedTree(e, name) ==
    IF e.kind = "docx" THEN e.root
    ELSE e.slides[CHOOSE k \in 1..Len(e.slides) : e.slides[k].name = name].root

\* C20: a save that returns has rewritten exactly the loaded entries (the
\* document; every loaded slide) and dropped none: the saved package has the
\* names of the source package in the same order, none added, every loaded
\* entry holds the serialization of its tree and every other entry is the
\* source entry.
C20_SaveRewritesLoadedOnly ==
    (Saved("docx") \/ Saved("pptx")) =>
        /\ NameSeq(SavedTo) = NameSeq(SavedFrom)
        /\ \A i \in 1..Len(SavedFrom) :
            IF SavedFrom[i].name \in LoadedNames(ed)
            THEN /\ SavedTo[i].data =
                        XmlBytes(EncodeTree(LoadedTree(ed, SavedFrom[i].name)))
                 /\ SavedTo[i].meta = SavedFrom[i].meta
            ELSE SavedTo[i] = SavedFrom[i]

\* An edited presentation saved to another path: two slides rewritten with
\* new bytes, the entry between them passed through.
C20_Witness ==
    /\ Saved("pptx")
    /\ op.path # ed.path
    /\ Len(SavedFrom) = 3
    /\ SavedFrom[2].name \notin LoadedNames(ed)
    /\ SavedTo[2] = SavedFrom[2]
    /\ SavedTo[1].data # SavedFrom[1].data
    /\ SavedTo[3].data # SavedFrom[3].data

\* ========================================================== transfer properties
\* What the properties speak of: the last iteration of the loop, its file and
\* destination, and how the call ended.
XferRaised == xfer.status \notin {"idle", "running", "returned"}
XferReturned(name) == xfer.op = name /\ xfer.status = "returned"
Iterated == xfer.i > 1 \/ XferRaised
LastFile == xfer.files[IF XferRaised THEN xfer.i ELSE xfer.i - 1]
LastDest == FilePath(xfer.dest_root, LastFile.name)
RealRun == ~xfer.dry_run
DryRun == xfer.dry_run

\* C21: in a real transfer_files run, for a file whose destination exists
\* when the loop reaches it: under skip the destination keeps its content
\* and no pair is appended; under overwrite, when the copy or move is done,
\* the destination holds the source's content and the pair is the last of
\* the list; under error the call raises FileExistsError and the destination
\* keeps its content.  The list returned is the list so built.
C21_PolicyHonoured ==
    /\ (xfer.op = "transfer_files" /\ RealRun /\ Iterated /\ xfer.hit) =>
        /\ xfer.on_conflict = "skip" =>
            /\ disk.files[LastDest] = xfer.prev.files[LastDest]
            /\ ~xfer.acted
            /\ ~XferRaised
        /\ (xfer.on_conflict = "overwrite" /\ ~XferRaised) =>
            /\ disk.files[LastDest] = xfer.prev.files[LastFile]
            /\ xfer.acted
            /\ xfer.ops[Len(xfer.ops)] = [src |-> LastFile, dest |-> LastDest]
        /\ xfer.on_conflict = "error" =>
            /\ xfer.status = "FileExistsError"
            /\ disk = xfer.prev
    /\ XferReturned("transfer_files") =>
        xfer.result = [given |-> TRUE, pairs |-> xfer.ops]

\* Two files of the same name copied under overwrite into an empty
\* destination: the second finds the first's copy and replaces it.
C21_Witness ==
    /\ XferReturned("transfer_files")
    /\ RealRun
    /\ xfer.on_conflict = "overwrite"
    /\ xfer.mode = "copy"
    /\ xfer.files = <<[dir |-> "a", name |-> "x"], [dir |-> "b", name |-> "x"]>>
    /\ xfer.pre.files[[dir |-> "out", name |-> "x"]] = ""
    /\ xfer.hit
    /\ disk.files[[dir |-> "out", name |-> "x"]] = "bx"
    /\ Len(xfer.result.pairs) = 2

\* C22: a dry run writes nothing.  During and after transfer_files(...,
\* dry_run=True) and copy_files(..., dry_run=True) the disk is what it was
\* when the call was made: the same directories, the same files, the same
\* contents (no other process having removed a file).
C22_DryRunWritesNothing ==
    (xfer.op \in {"transfer_files", "copy_files"} /\ DryRun
        /\ xfer.removed = {}) => disk = xfer.pre

\* The outcome of a call: how it ended and the list the caller holds.
Outcome(status, pairs) ==
    [status |-> status, pairs |-> IF status = "returned" THEN pairs ELSE <<>>]

\* C23: for every file sequence, initial destination state, mode and
\* conflict policy, transfer_files with dry_run=True ends as the real run
\* from the same disk ends and returns the list the real run returns.
C23_DryRunListIsRealList ==
    (XferReturned("transfer_files") /\ DryRun) =>
        LET real == transfer_files(xfer.pre, xfer.files, xfer.dest_root,
                                   xfer.mode, xfer.on_conflict, FALSE)
        IN Outcome("returned", xfer.result.pairs)
                = Outcome(real.status, real.ops)

\* C24: in copy_files, when another process removes a selected file before
\* it is copied, no error reaches the caller and every other selected file
\* is copied.
C24_MissingFileSwallowed ==
    (xfer.op = "copy_files" /\ RealRun /\ xfer.removed # {}) =>
        /\ ~XferRaised
        /\ xfer.status = "returned" =>
            \A k \in 1..Len(xfer.files) :
                xfer.files[k] \notin xfer.removed =>
                    Exists(disk, FilePath(xfer.dest_root, xfer.files[k].name))

\* The paths named by the pairs of the returned list.
ReturnedSources == {xfer.result.pairs[k].src : k \in 1..Len(xfer.result.pairs)}

\* The paths written by the pairs of the returned list.
ReturnedDests == {xfer.result.pairs[k].dest : k \in 1..Len(xfer.result.pairs)}

\* C25 as stated: after a real transfer_files call that returns, every
\* returned pair has its destination existing; in move mode its source is
\* gone, in copy mode its source is there with its content; a file that no
\* pair of the list names is as it was.
C25_MovedSourcesGone ==
    (XferReturned("transfer_files") /\ RealRun) =>
        /\ \A k \in 1..Len(xfer.result.pairs) :
            LET pair == xfer.result.pairs[k]
            IN /\ Exists(disk, pair.dest)
               /\ xfer.mode = "move" => ~Exists(disk, pair.src)
               /\ xfer.mode = "copy" =>
                    /\ Exists(disk, pair.src)
                    /\ disk.files[pair.src] = xfer.pre.files[pair.src]
        /\ \A k \in 1..Len(xfer.files) :
            xfer.files[k] \notin ReturnedSources \cup ReturnedDests =>
                disk.files[xfer.files[k]] = xfer.pre.files[xfer.files[k]]

\* The disk after the first n files have each been copied or moved to the
\* destination directory.
RECURSIVE AfterTransferOf(_, _, _, _, _)
AfterTransferOf(d, files, n, dest_root, mode) ==
    IF n = 0 THEN d
    ELSE LET before == AfterTransferOf(d, files, n - 1, dest_root, mode)
             src == files[n]
             dest == [dir |-> dest_root, name |-> src.name]
         IN [before EXCEPT
                !.files = [p \in DOMAIN before.files |->
                    IF p = dest THEN before.files[src]
                    ELSE IF p = src /\ mode = "move" THEN ""
                    ELSE before.files[p]]]

\* C26: when a real transfer_files run raises FileExistsError, it does so at
\* the first file whose destination exists when reached; the files before it
\* have been copied or moved, nothing else on the disk has changed (the
\* destination directory apart): a file at or after it is as it was unless
\* its path is also that of an earlier file or of an earlier file's
\* destination; and the caller gets no list.
C26_NotAtomicUnderError ==
    (xfer.op = "transfer_files" /\ RealRun
        /\ xfer.status = "FileExistsError") =>
        /\ xfer.on_conflict = "error"
        /\ Exists(disk, LastDest)
        /\ disk.files = AfterTransferOf(xfer.pre, xfer.files, xfer.i - 1,
                                        xfer.dest_root, xfer.mode).files
        /\ \A k \in 1..(xfer.i - 1) :
                disk.files[FilePath(xfer.dest_root, xfer.files[k].name)]
                    = xfer.pre.files[xfer.files[k]]
        /\ \A k \in xfer.i..Len(xfer.files) :
                (\A h \in 1..(xfer.i - 1) :
                    /\ xfer.files[h] # xfer.files[k]
                    /\ FilePath(xfer.dest_root, xfer.files[h].name) # xfer.files[k]) =>
                    disk.files[xfer.files[k]] = xfer.pre.files[xfer.files[k]]
        /\ xfer.result = [given |-> FALSE, pairs |-> <<>>]

\* A move under error of two files of the same name into a destination
\* without that name: the first is moved, the second raises and stays.
C26_Witness ==
    /\ xfer.op = "transfer_files"
    /\ RealRun
    /\ xfer.status = "FileExistsError"
    /\ xfer.mode = "move"
    /\ xfer.i = 2
    /\ xfer.files = <<[dir |-> "a", name |-> "x"], [dir |-> "b", name |-> "x"]>>
    /\ disk.files[[dir |-> "a", name |-> "x"]] = ""
    /\ disk.files[[dir |-> "b", name |-> "x"]] = "bx"
    /\ disk.files[[dir |-> "out", name |-> "x"]] = "ax"

====
